---- MODULE Spec2Model ----
(***************************************************************************)
(* A model of the orchestration core of elpatcher: the webhook handlers of *)
(* patcher/server/webhooks.py with their in-memory dedup flags and         *)
(* iteration counters, the start and advance paths of CodeAgent, the       *)
(* check-run aggregation of GitHubClient.get_ci_status and the polling     *)
(* loop ReviewAgent._wait_for_ci.                                          *)
(*                                                                         *)
(* The handlers are asyncio coroutines on one event loop: a handler runs   *)
(* without interruption from one suspension point to the next.  The        *)
(* suspension points are the token request of get_installation_token and   *)
(* the calls to the language model; every call to GitHub blocks the loop.  *)
(* An action of the model is one such uninterrupted run.  The token        *)
(* request returns at once when a valid token is cached (github_app.py     *)
(* 64-66) and suspends otherwise, as it does for the first request of a    *)
(* process and after every expiry; the run without suspension is the run   *)
(* in which the handler is resumed before any other handler moves.  Calls  *)
(* to GitHub and to the language model may fail; \E chooses which.         *)
(***************************************************************************)
EXTENDS Integers, Sequences, FiniteSets, TLC

(* ------------------------------ bounds -------------------------------- *)
\* webhook deliveries handled in one process lifetime
NumHandlers == 2
\* issues of the repository
NumIssues == 1
\* distinct titles an issue can be given (the branch name derives from it)
NumTitles == 2
\* Settings.max_iterations (server/config.py:35, default 5, MAX_ITERATIONS)
max_iterations == 1
\* check runs on the last commit of a pull request
MaxRuns == 2
\* checks in the CIResult given to _analyze_ci
MaxChecks == 2
\* characters of a text field of the record (review_feedback)
MaxText == 1
\* characters of description before and after the fenced block
MaxPad == 1
\* save_to_pr calls on one description
MaxSaves == 2

(* ----------------------- constants of the program ---------------------- *)
\* the defaults of _wait_for_ci (agents/review_agent.py 202-203), in seconds
timeout_seconds == 600
poll_interval == 30

Handlers == 1..NumHandlers
Issues == 1..NumIssues
Titles == 1..NumTitles
\* every delivery opens at most one pull request; one may exist beforehand
PRNums == 1..(NumHandlers + 1)

VARIABLES
  processing_issues,    \* webhooks._processing_issues: the issues flagged
  pr_iteration_counts,  \* webhooks._pr_iteration_counts, 0 where unset
  pc,                   \* position of each handler
  ev,                   \* what each handler was delivered and holds in its locals
  result,               \* the reason / status each handler returned
  fault,                \* the external call that failed in each handler
  local_state,          \* the AgentState object a handler loaded
  agent_calls,          \* calls of CodeAgent.run / CodeAgent.iterate per handler
  created,              \* artifacts each handler created
  branches,             \* GitHub: existing elpatcher branches
  prs,                  \* GitHub: pull requests, PR number = index
  notices,              \* GitHub: limit notices posted on each pull request
  ci_pc,                \* get_ci_status: position ("start", "loop", "returned")
  ci_has_commits,       \* get_ci_status: the pull request has commits
  ci_runs,              \* get_ci_status: the check runs of the last commit
  ci_pos,               \* get_ci_status: check runs folded so far
  overall_status,       \* get_ci_status: the local overall_status
  checks,               \* get_ci_status: the local checks (their statuses)
  w_pc,                 \* _wait_for_ci: position
  now,                  \* _wait_for_ci: time.time(), in seconds since it was called
  ci_result,            \* _wait_for_ci: the last CIResult polled
  polled,               \* _wait_for_ci: get_ci_status has been called
  late_polls,           \* _wait_for_ci: get_ci_status calls begun with the timeout elapsed
  an_pc,                \* _analyze_ci: position
  an_checks,            \* _analyze_ci: ci_result.checks (name and status of each)
  patcher_only,         \* _analyze_ci: the argument patcher_only
  relevant_checks,      \* _analyze_ci: the local relevant_checks
  failures,             \* _analyze_ci: the local failures (the checks' names)
  passed,               \* _analyze_ci: the verdict, CIAnalysis.passed
  st_pc,                \* StateManager: what was called last
  body0,                \* StateManager: the description before any save
  pr_body,              \* StateManager: the description of the pull request
  state,                \* StateManager: the AgentState given to save_to_pr
  saves,                \* StateManager: save_to_pr calls that returned
  loaded,               \* StateManager: what load_from_pr returned
  visible,              \* StateManager: what extract_visible_body returned
  comment_result,       \* the comment handler on pr_body: status, counter, agent calls
  ep_pc,                \* POST /webhook: position of the request being served
  github_webhook_secret,\* settings.github_webhook_secret, <<>> when not configured
  signature_header,     \* the request's X-Hub-Signature-256 header, <<>> when absent
  raw_body,             \* the request's raw body
  event_type,           \* the request's X-GitHub-Event header, "" when absent
  status_code,          \* the status of the response, 0 before there is one
  tasks,                \* background tasks scheduled by the request being served
  deliveries            \* requests served so far

hvars == <<processing_issues, pr_iteration_counts, pc, ev,
           result, fault, local_state, agent_calls, created, branches, prs,
           notices>>

civars == <<ci_pc, ci_has_commits, ci_runs, ci_pos, overall_status, checks>>

wvars == <<w_pc, now, ci_result, polled, late_polls>>

anvars == <<an_pc, an_checks, patcher_only, relevant_checks, failures, passed>>

stvars == <<st_pc, body0, pr_body, state, saves, loaded, visible, comment_result>>

epvars == <<ep_pc, github_webhook_secret, signature_header, raw_body, event_type,
            status_code, tasks, deliveries>>

vars == <<hvars, civars, wvars, anvars, stvars, epvars>>

\* what the steps of one component leave alone: the other components
not_h == <<civars, wvars, anvars, stvars, epvars>>
not_ci == <<hvars, wvars, anvars, stvars, epvars>>
not_w == <<hvars, civars, anvars, stvars, epvars>>
not_an == <<hvars, civars, wvars, stvars, epvars>>
not_st == <<hvars, civars, wvars, anvars, epvars>>
not_ep == <<hvars, civars, wvars, anvars, stvars>>

(* ------------------- webhooks.py: the in-memory maps ------------------- *)
is_issue_processing(flags, i) == i \in flags

mark_issue_processing_unchecked(flags, i) ==
  [ok |-> TRUE, flags |-> flags \cup {i}]

mark_issue_processing(flags, i) ==
  IF i \in flags THEN [ok |-> FALSE, flags |-> flags]
  ELSE [ok |-> TRUE, flags |-> flags \cup {i}]

clear_issue_processing_noop(flags, i) == flags

clear_issue_processing(flags, i) == flags \ {i}

get_pr_iteration_count(counts, p) == counts[p]

\* increment_pr_iteration without the increment
increment_pr_iteration_dropped(counts, p) == counts

increment_pr_iteration(counts, p) == [counts EXCEPT ![p] = @ + 1]

\* GitHubClient.post_comment on a pull request, as the comments it then shows
post_comment_dropped(ns, p, body) == ns

post_comment(ns, p, body) == [ns EXCEPT ![p] = Append(@, body)]

budget_exhausted_strict(cur) == cur > max_iterations

budget_exhausted(cur) == cur >= max_iterations

(* ---------------------- state/models.py: AgentState -------------------- *)
NoState == [present |-> FALSE, issue_number |-> 0, pr_number |-> 0,
            branch_name |-> <<>>, iterations |-> <<>>]

NewState(i, br) == [present |-> TRUE, issue_number |-> i, pr_number |-> 0,
                    branch_name |-> br, iterations |-> <<>>]

\* add_iteration without the append
add_iteration_dropped(st, status, ci) == st

add_iteration(st, status, ci) ==
  [st EXCEPT !.iterations =
     Append(@, [number |-> Len(@) + 1, status |-> status, ci_status |-> ci])]

iteration_count(st) == Len(st.iterations)

\* The record in the description once save_to_pr has replaced the block by
\* that of st (manager.py 41-42).  escapes: a text field of st holds a
\* newline or a backslash; re.sub then rewrites the JSON escape, the stored
\* text is no JSON document any more and load_from_pr returns None for it
\* (manager.py 66-71): present is FALSE, the fields are what was written.
stored_record(st, escapes) == IF escapes THEN [st EXCEPT !.present = FALSE] ELSE st

\* the Steps load_from_pr finds in a record
steps(st) == IF st.present THEN st.iterations ELSE <<>>

(* ------------------------ code_agent.py helpers ------------------------ *)
generate_branch_name(i, title) == <<"patcher", i, title>>

(* ------------------------------- text ---------------------------------- *)
\* Text is a sequence of characters.  str.lower on the letters that occur.
lower_char(c) ==
  CASE c = "A" -> "a" [] c = "I" -> "i" [] c = "P" -> "p" [] c = "R" -> "r"
    [] c = "E" -> "e" [] c = "L" -> "l" [] c = "T" -> "t" [] c = "C" -> "c"
    [] c = "H" -> "h" [] OTHER -> c

lower(s) == [k \in 1..Len(s) |-> lower_char(s[k])]

\* Python's "pat in s" on strings
contains(s, pat) ==
  \E k \in 0..(Len(s) - Len(pat)) : SubSeq(s, k + 1, k + Len(pat)) = pat

(* ------------------------------ events --------------------------------- *)
\* labelled, is_pr, label, body, head and review hold what the routing rules
\* have tested of the payload (label and body until the handler's next step)
NoEvent == [kind |-> "none", action |-> "none", number |-> 0, accepted |-> FALSE, overlap |-> FALSE,
            cur |-> 0, title |-> 0, ci_failed |-> FALSE, feedback |-> FALSE,
            path |-> "none", labelled |-> FALSE, is_pr |-> FALSE,
            label |-> "none", body |-> <<>>, head |-> <<>>, review |-> "none"]

NoArtifacts == [branches |-> 0, commits |-> 0, prs |-> 0, notices |-> 0, steps |-> 0]

IssueActions == {"opened", "labeled", "closed"}
CommentActions == {"created", "edited"}
Labels == {"none", "elpatcher", "ai-review"}

\* f"unsupported action: {payload.action}" (webhooks.py 191, 339)
unsupported_action(action) ==
  CASE action = "closed" -> "unsupported action: closed"
    [] action = "edited" -> "unsupported action: edited"
    [] OTHER -> "unsupported action"

\* the routing rules of handle_issue_event without the test of the action
route_issue_any_action(action, labelled) ==
  IF ~labelled THEN "missing elpatcher label" ELSE "accept"

\* the routing rules of handle_issue_event: a skip reason, or "accept"
route_issue(action, labelled) ==
  IF ~labelled THEN "missing elpatcher label"
  ELSE IF action \notin {"opened", "labeled"} THEN unsupported_action(action)
  ELSE "accept"

\* the comment bodies delivered: "@elpatcher fix", "/ELPATCHER" and, without
\* the sigil, "elpatcher fix"
CommentBodies ==
  { <<"@","e","l","p","a","t","c","h","e","r"," ","f","i","x">>,
    <<"/","E","L","P","A","T","C","H","E","R">>,
    <<"e","l","p","a","t","c","h","e","r"," ","f","i","x">> }

\* the two alternatives of ELPATCHER_MENTION_PATTERN (webhooks.py 93-96); the
\* trigger word after them is optional
MentionSigils ==
  { <<"@","e","l","p","a","t","c","h","e","r">>,
    <<"/","e","l","p","a","t","c","h","e","r">> }

\* the pattern compiled without re.IGNORECASE
mentions_elpatcher_case_sensitive(body) ==
  \E pat \in MentionSigils : contains(body, pat)

\* ELPATCHER_MENTION_PATTERN.search(comment_body) (webhooks.py 93-96, 357)
mentions_elpatcher(body) ==
  \E pat \in MentionSigils : contains(lower(body), pat)

\* the routing rules of handle_issue_comment_event
route_comment(action, is_pr, label, mention) ==
  IF action # "created" THEN unsupported_action(action)
  ELSE IF ~is_pr THEN "not a pull request"
  ELSE IF label = "none" THEN "no elpatcher/ai-review label"
  ELSE IF ~mention THEN "no elpatcher mention"
  ELSE "accept"

ReviewStates == {"changes_requested", "approved"}

\* a head branch moved under elpatcher/ (a branch renamed on GitHub keeps its
\* pull request)
renamed(head) == <<"elpatcher">> \o Tail(head)

\* head_ref.startswith("elpatcher/") (webhooks.py 273): the part of the name
\* before its first slash is "elpatcher"
is_patcher_pr(head_ref) == head_ref # <<>> /\ Head(head_ref) = "elpatcher"

\* the routing rules of handle_pull_request_review_event
route_review(head_ref, review_state) ==
  IF ~is_patcher_pr(head_ref) THEN "not a patcher PR"
  ELSE IF review_state # "changes_requested" THEN "not a changes_requested review"
  ELSE "accept"

InFlight(h) == pc[h] \notin {"idle", "done"}

\* deliveries are numbered in the order their handlers start
MayStart(h) ==
  /\ pc[h] = "idle"
  /\ \A g \in Handlers : g < h => pc[g] # "idle"

(* ------------------------------- Init ---------------------------------- *)
\* The process starts with empty maps.  GitHub is either untouched or, after a
\* restart of the server, already holds a pull request that an earlier run of
\* CodeAgent.run opened for issue 1.
OldBranch == generate_branch_name(1, 1)

OldPR == [issue |-> 1, head |-> OldBranch,
          state |-> [add_iteration(NewState(1, OldBranch), "awaiting_review", "none")
                       EXCEPT !.pr_number = 1]]

HStart(restarted) ==
  /\ processing_issues = {}
  /\ pr_iteration_counts = [p \in PRNums |-> 0]
  /\ pc = [h \in Handlers |-> "idle"]
  /\ ev = [h \in Handlers |-> NoEvent]
  /\ result = [h \in Handlers |-> "none"]
  /\ fault = [h \in Handlers |-> "none"]
  /\ local_state = [h \in Handlers |-> NoState]
  /\ agent_calls = [h \in Handlers |-> 0]
  /\ created = [h \in Handlers |-> NoArtifacts]
  /\ branches = IF restarted THEN {OldBranch} ELSE {}
  /\ prs = IF restarted THEN <<OldPR>> ELSE <<>>
  /\ notices = [p \in PRNums |-> <<>>]

\* no get_ci_status call in progress
CIIdle ==
  /\ ci_pc = "start"
  /\ ci_has_commits = TRUE
  /\ ci_runs = <<>>
  /\ ci_pos = 0
  /\ overall_status = "unset"
  /\ checks = <<>>

NoResult == [status |-> "unset", checks |-> <<>>]

\* _wait_for_ci just called: start_time = time.time(), taken as second 0
WStart ==
  /\ w_pc = "poll"
  /\ now = 0
  /\ ci_result = NoResult
  /\ polled = FALSE
  /\ late_polls = 0

\* no _analyze_ci call in progress
ANIdle ==
  /\ an_pc = "start"
  /\ an_checks = <<>>
  /\ patcher_only = TRUE
  /\ relevant_checks = <<>>
  /\ failures = <<>>
  /\ passed = TRUE

\* no StateManager call made on its own
\* no comment handled yet
NoComment == [status |-> "none", counter |-> 0, agent_calls |-> 0]

STIdle ==
  /\ st_pc = "start"
  /\ body0 = <<>>
  /\ pr_body = <<>>
  /\ state = [review_feedback |-> <<>>]
  /\ saves = 0
  /\ loaded = [kind |-> "unset"]
  /\ visible = <<>>
  /\ comment_result = NoComment

\* no request is being served
EPIdle ==
  /\ ep_pc = "idle"
  /\ github_webhook_secret = <<>>
  /\ signature_header = <<>>
  /\ raw_body = "none"
  /\ event_type = ""
  /\ status_code = 0
  /\ tasks = 0
  /\ deliveries = 0

Init ==
  /\ \E restarted \in BOOLEAN : HStart(restarted)
  /\ CIIdle /\ WStart /\ ANIdle /\ STIdle /\ EPIdle

(* --------------------- handle_issue_event (start) ---------------------- *)
\* From the delivery to the first suspension: the routing rules, the dedup
\* flag, then the await of get_installation_token.
HandleIssueEvent(h) ==
  /\ MayStart(h)
  /\ \E i \in Issues, action \in IssueActions, labelled \in BOOLEAN :
       LET reason == route_issue(action, labelled)
           m == mark_issue_processing(processing_issues, i)
           busy == \E g \in Handlers :
                     InFlight(g) /\ ev[g].kind = "issues" /\ ev[g].number = i
           e == [NoEvent EXCEPT !.kind = "issues", !.number = i,
                                !.labelled = labelled]
       IN IF reason # "accept"
          THEN /\ ev' = [ev EXCEPT ![h] =
                           [e EXCEPT !.action = IF labelled THEN action ELSE @]]
               /\ result' = [result EXCEPT ![h] = reason]
               /\ pc' = [pc EXCEPT ![h] = "done"]
               /\ UNCHANGED processing_issues
          ELSE IF ~m.ok
          THEN /\ ev' = [ev EXCEPT ![h] = [e EXCEPT !.action = action, !.accepted = TRUE,
                                                    !.overlap = busy]]
               /\ result' = [result EXCEPT ![h] = "already processing"]
               /\ pc' = [pc EXCEPT ![h] = "done"]
               /\ processing_issues' = m.flags
          ELSE /\ ev' = [ev EXCEPT ![h] = [e EXCEPT !.action = action, !.accepted = TRUE,
                                                    !.overlap = busy]]
               /\ processing_issues' = m.flags
               /\ pc' = [pc EXCEPT ![h] = "issue_token"]
               /\ UNCHANGED result
  /\ UNCHANGED <<not_h, pr_iteration_counts, fault, local_state, agent_calls,
                 created, branches, prs, notices>>

(* ------------- handle_issue_event: token, then CodeAgent.run ----------- *)
\* get_installation_token returns (or raises); CodeAgent.run is called and
\* runs up to its first call of the language model.  get_issue reads the
\* issue's title here: t, whatever the title is on GitHub at that moment.
IssueToken(h) ==
  /\ pc[h] = "issue_token"
  /\ \E out \in {"ok", "token", "get_issue"}, t \in Titles :
       /\ out # "ok" => t = 1
       /\ agent_calls' = [agent_calls EXCEPT ![h] = IF out = "token" THEN @ ELSE @ + 1]
       /\ IF out = "ok"
          THEN /\ pc' = [pc EXCEPT ![h] = "issue_llm"]
               /\ ev' = [ev EXCEPT ![h].title = t]
               /\ UNCHANGED <<result, fault, processing_issues>>
          ELSE /\ pc' = [pc EXCEPT ![h] = "done"]
               /\ result' = [result EXCEPT ![h] = "error"]
               /\ fault' = [fault EXCEPT ![h] = out]
               /\ processing_issues' = clear_issue_processing(processing_issues, ev[h].number)
               /\ ev' = [ev EXCEPT ![h].action = "none"]
  /\ UNCHANGED <<not_h, pr_iteration_counts, local_state, created, branches,
                 prs, notices>>

\* the handler's result without the except clauses: a failure escapes
agent_result_escaping(out) == IF out = "ok" THEN "success" ELSE "raised"

\* the status a handler returns for the outcome of its agent: the agent's
\* except clause turns every failure into a failed result (code_agent.py
\* 351-357, 558-564) and the handler returns status error for it (webhooks.py
\* 217-230, 436-451)
agent_result(out) == IF out = "ok" THEN "success" ELSE "error"

(* --------- CodeAgent.run after generation: branch, commit, PR ---------- *)
RunOutcomes == {"ok", "llm", "no_files", "create_branch", "commit_changes",
                "create_pull_request", "add_to_labels", "save_to_pr"}

\* the calls of CodeAgent.run without the test of code_gen.files
RunReached_files_unchecked(out, call) ==
  CASE call = "create_branch" -> out # "llm"
    [] call = "commit_changes" -> out \notin {"llm", "create_branch"}
    [] call = "create_pull_request" ->
         out \notin {"llm", "create_branch", "commit_changes"}
    [] call = "add_to_labels" -> out \in {"ok", "add_to_labels", "save_to_pr"}
    [] call = "save_to_pr" -> out \in {"ok", "save_to_pr"}

\* the calls of CodeAgent.run in their order; a call is made iff no earlier
\* one failed
RunReached(out, call) ==
  CASE call = "create_branch" -> out \notin {"llm", "no_files"}
    [] call = "commit_changes" -> out \notin {"llm", "no_files", "create_branch"}
    [] call = "create_pull_request" ->
         out \notin {"llm", "no_files", "create_branch", "commit_changes"}
    [] call = "add_to_labels" -> out \in {"ok", "add_to_labels", "save_to_pr"}
    [] call = "save_to_pr" -> out \in {"ok", "save_to_pr"}

\* GitHub refuses a pull request whose head branch already has one
HeadTaken(br) == \E k \in 1..Len(prs) : prs[k].head = br

IssueGenerate(h) ==
  /\ pc[h] = "issue_llm"
  /\ \E out \in RunOutcomes, escapes \in BOOLEAN :
       LET i == ev[h].number
           br == generate_branch_name(i, ev[h].title)
           st0 == add_iteration(NewState(i, br), "awaiting_review", "none")
           n == Len(prs) + 1
           \* escapes: the path of a generated file holds a backslash
           st == IF out = "ok"
                 THEN stored_record([st0 EXCEPT !.pr_number = n], escapes)
                 ELSE st0
           made_branch == RunReached(out, "commit_changes") /\ br \notin branches
           made_commit == RunReached(out, "create_pull_request")
           made_pr == RunReached(out, "add_to_labels")
       IN /\ out # "ok" => ~escapes
          /\ made_pr => ~HeadTaken(br)
          /\ branches' = IF RunReached(out, "commit_changes")
                         THEN branches \cup {br} ELSE branches
          /\ prs' = IF made_pr
                    THEN Append(prs, [issue |-> i, head |-> br, state |-> st])
                    ELSE prs
          /\ created' = [created EXCEPT ![h] =
                           [@ EXCEPT !.branches = IF made_branch THEN 1 ELSE 0,
                                     !.commits = IF made_commit THEN 1 ELSE 0,
                                     !.prs = IF made_pr THEN 1 ELSE 0,
                                     !.steps = IF made_pr THEN 1 ELSE 0]]
          /\ result' = [result EXCEPT ![h] = agent_result(out)]
          /\ fault' = [fault EXCEPT ![h] = IF out = "ok" THEN "none" ELSE out]
          /\ pc' = [pc EXCEPT ![h] = "done"]
          /\ processing_issues' = clear_issue_processing(processing_issues, i)
  /\ ev' = [ev EXCEPT ![h].title = 0, ![h].action = "none"]
  /\ UNCHANGED <<not_h, pr_iteration_counts, local_state,
                 agent_calls, notices>>

(* ------------------ handle_issue_comment_event (start) ----------------- *)
\* The routing rules and the budget check, up to the await of
\* get_installation_token on either branch.
HandleIssueCommentEvent(h) ==
  /\ MayStart(h)
  /\ \E action \in CommentActions, is_pr \in BOOLEAN, label \in Labels,
        body \in CommentBodies :
       \E p \in IF is_pr THEN 1..Len(prs) ELSE Issues :
         LET reason == route_comment(action, is_pr, label, mentions_elpatcher(body))
             cur == get_pr_iteration_count(pr_iteration_counts, p)
             created_ == action = "created"
             e == [NoEvent EXCEPT !.kind = "issue_comment", !.action = action,
                                  !.is_pr = created_ /\ is_pr,
                                  !.label = IF created_ /\ is_pr THEN label ELSE @,
                                  !.body = IF created_ /\ is_pr /\ label # "none"
                                           THEN body ELSE @]
         IN \* what the rules do not read of a payload is drawn once
            /\ action # "created" => ~is_pr
            /\ ~is_pr => label = "none"
            /\ label = "none" => ~mentions_elpatcher(body)
            /\ reason # "accept" => p = 1
            /\ IF reason # "accept"
               THEN /\ ev' = [ev EXCEPT ![h] = e]
                    /\ result' = [result EXCEPT ![h] = reason]
                    /\ pc' = [pc EXCEPT ![h] = "done"]
               ELSE /\ ev' = [ev EXCEPT ![h] =
                                [e EXCEPT !.number = p, !.accepted = TRUE, !.cur = cur]]
                    /\ pc' = [pc EXCEPT ![h] =
                                IF budget_exhausted(cur) THEN "notice_token" ELSE "iter_token"]
                    /\ UNCHANGED result
  /\ UNCHANGED <<not_h, processing_issues, pr_iteration_counts, fault,
                 local_state, agent_calls, created, branches, prs,
                 notices>>

(* ------------- the budget-exhausted branch: post the notice ------------ *)
\* webhooks.py 369-399: token, post_comment inside try/except, then the
\* budget-exhausted result whatever happened.
PostNotice(h) ==
  /\ pc[h] = "notice_token"
  /\ \E out \in {"ok", "token", "post_comment"} :
       LET p == ev[h].number IN
       /\ notices' = IF out = "ok"
                     THEN post_comment(notices, p, max_iterations)
                     ELSE notices
       /\ created' = [created EXCEPT ![h].notices = IF out = "ok" THEN 1 ELSE 0]
       /\ fault' = [fault EXCEPT ![h] = IF out = "ok" THEN "none" ELSE out]
       /\ result' = [result EXCEPT ![h] = "max_iterations_reached"]
       /\ pc' = [pc EXCEPT ![h] = "done"]
  /\ ev' = [ev EXCEPT ![h].label = "none", ![h].body = <<>>]
  /\ UNCHANGED <<not_h, processing_issues, pr_iteration_counts, local_state, agent_calls,
                 branches, prs>>

(* ------ the advance branch: token, load_from_pr, increment, iterate ---- *)
\* which context CodeAgent.iterate gives the language model (code_agent.py
\* 393-457): CI failures when _get_ci_failures returns a result, else review
\* feedback when there is some, else none
get_path(ci_failed, ci_raises, feedback) ==
  IF ci_failed /\ ~ci_raises THEN "ci"
  ELSE IF feedback THEN "feedback"
  ELSE "none"

\* webhooks.py 406-434 and CodeAgent.iterate up to its first call of the
\* language model (code_agent.py 376-457).  ci_failed: the pull request has a
\* failing check; ci_raises: the get_ci_status call of _get_ci_failures
\* raises, which _get_ci_failures turns into "no failures" (code_agent.py
\* 812-814; without a failing check the outcome is the same, so only the case
\* with one is drawn); feedback: _get_review_feedback finds review feedback.
IterateToken(h) ==
  /\ pc[h] = "iter_token"
  /\ \E out \in {"ok", "token", "load_from_pr", "iterate_github"},
        ci_failed \in BOOLEAN, ci_raises \in BOOLEAN, feedback \in BOOLEAN :
       LET p == ev[h].number
           st == prs[p].state
           called == out \in {"ok", "iterate_github"} /\ st.present
           path == get_path(ci_failed, ci_raises, feedback)
           suspended == called /\ out = "ok" /\ path # "none"
       IN /\ out # "ok" => ~ci_failed /\ ~feedback
          /\ ci_raises => ci_failed
          /\ pr_iteration_counts' =
               IF called THEN increment_pr_iteration(pr_iteration_counts, p)
               ELSE pr_iteration_counts
          /\ agent_calls' = [agent_calls EXCEPT ![h] = IF called THEN @ + 1 ELSE @]
          /\ local_state' = [local_state EXCEPT ![h] = IF suspended THEN st ELSE @]
          /\ ev' = [ev EXCEPT ![h].path = IF suspended THEN path ELSE @,
                               ![h].ci_failed = suspended /\ ci_failed,
                               ![h].feedback = suspended /\ feedback,
                               ![h].label = "none", ![h].body = <<>>]
          /\ fault' = [fault EXCEPT ![h] =
                         IF out \in {"token", "load_from_pr"} THEN out
                         ELSE IF called /\ out = "iterate_github" THEN out
                         ELSE @]
          /\ pc' = [pc EXCEPT ![h] = IF suspended THEN "iter_llm" ELSE "done"]
          /\ result' = [result EXCEPT ![h] =
                          IF out \in {"token", "load_from_pr"} THEN "error"
                          ELSE IF ~st.present THEN "no patcher state found"
                          ELSE IF out = "iterate_github" THEN "error"
                          ELSE IF suspended THEN @
                          ELSE "success"]
  /\ UNCHANGED <<not_h, processing_issues, created, branches, prs, notices>>

(* ------ CodeAgent.iterate after generation: commit, Step, save --------- *)
IterateOutcomes == {"ok", "llm", "no_files", "commit_changes", "save_to_pr", "get_pr"}

IterateGenerate(h) ==
  /\ pc[h] = "iter_llm"
  /\ \E out \in IterateOutcomes, escapes \in BOOLEAN :
       LET p == ev[h].number
           committed == out \in {"ok", "save_to_pr", "get_pr"}
           saved == out \in {"ok", "get_pr"}
           st == add_iteration(local_state[h], "awaiting_review",
                               IF ev[h].path = "ci" THEN "failed" ELSE "passed")
       IN \* the feedback stored with a CI fix is "[CI Fixes]" and a newline
          \* before the failures (code_agent.py 540-546); review feedback is
          \* the reviewer's text, with or without one
          /\ escapes = (saved /\ (ev[h].path = "ci" \/ escapes))
          /\ local_state' = [local_state EXCEPT ![h] = NoState]
          /\ prs' = IF saved
                    THEN [prs EXCEPT ![p].state = stored_record(st, escapes)]
                    ELSE prs
          /\ created' = [created EXCEPT ![h] =
                           [@ EXCEPT !.commits = IF committed THEN 1 ELSE 0,
                                     !.steps = IF saved THEN 1 ELSE 0]]
          /\ result' = [result EXCEPT ![h] = agent_result(out)]
          /\ fault' = [fault EXCEPT ![h] = IF out = "ok" THEN "none" ELSE out]
          /\ pc' = [pc EXCEPT ![h] = "done"]
  /\ ev' = [ev EXCEPT ![h].path = "none", ![h].ci_failed = FALSE,
                       ![h].feedback = FALSE]
  /\ UNCHANGED <<not_h, processing_issues, pr_iteration_counts,
                 agent_calls, branches, notices>>

(* --------------- handle_pull_request_review_event (start) -------------- *)
\* webhooks.py 266-285: the two routing rules, up to the await of
\* get_installation_token.  The payload names a pull request of the
\* repository and its head branch as GitHub has it.
HandlePullRequestReviewEvent(h) ==
  /\ MayStart(h)
  /\ \E p \in 1..Len(prs), review_state \in ReviewStates :
     \E head_ref \in {prs[p].head, renamed(prs[p].head)} :
       LET reason == route_review(head_ref, review_state)
           e == [NoEvent EXCEPT !.kind = "pull_request_review", !.head = head_ref,
                                !.review = IF is_patcher_pr(head_ref)
                                           THEN review_state ELSE @]
       IN \* the review state is not read when the head is rejected
          /\ ~is_patcher_pr(head_ref) => review_state = "changes_requested"
          /\ IF reason # "accept"
             THEN /\ ev' = [ev EXCEPT ![h] = e]
                  /\ result' = [result EXCEPT ![h] = reason]
                  /\ pc' = [pc EXCEPT ![h] = "done"]
             ELSE /\ ev' = [ev EXCEPT ![h] = [e EXCEPT !.number = p, !.accepted = TRUE]]
                  /\ pc' = [pc EXCEPT ![h] = "review_token"]
                  /\ UNCHANGED result
  /\ UNCHANGED <<not_h, processing_issues, pr_iteration_counts, fault,
                 local_state, agent_calls, created, branches, prs, notices>>

\* webhooks.py 283-320 and CodeAgent.iterate up to its first call of the
\* language model: token, load_from_pr, the test of state.iteration_count,
\* then iterate.  The in-memory counter is neither read nor written.
ReviewToken(h) ==
  /\ pc[h] = "review_token"
  /\ \E out \in {"ok", "token", "load_from_pr", "iterate_github"},
        ci_failed \in BOOLEAN, ci_raises \in BOOLEAN, feedback \in BOOLEAN :
       LET p == ev[h].number
           st == prs[p].state
           spent == st.present /\ budget_exhausted(iteration_count(st))
           called == out \in {"ok", "iterate_github"} /\ st.present /\ ~spent
           path == get_path(ci_failed, ci_raises, feedback)
           suspended == called /\ out = "ok" /\ path # "none"
       IN /\ (out # "ok" \/ ~called) => ~ci_failed /\ ~feedback
          /\ ci_raises => ci_failed
          /\ agent_calls' = [agent_calls EXCEPT ![h] = IF called THEN @ + 1 ELSE @]
          /\ local_state' = [local_state EXCEPT ![h] = IF suspended THEN st ELSE @]
          /\ ev' = [ev EXCEPT ![h].path = IF suspended THEN path ELSE @,
                               ![h].ci_failed = suspended /\ ci_failed,
                               ![h].feedback = suspended /\ feedback]
          /\ fault' = [fault EXCEPT ![h] =
                         IF out \in {"token", "load_from_pr"} THEN out
                         ELSE IF called /\ out = "iterate_github" THEN out
                         ELSE @]
          /\ pc' = [pc EXCEPT ![h] = IF suspended THEN "iter_llm" ELSE "done"]
          /\ result' = [result EXCEPT ![h] =
                          IF out \in {"token", "load_from_pr"} THEN "error"
                          ELSE IF ~st.present THEN "no patcher state found"
                          ELSE IF spent THEN "max_iterations_reached"
                          ELSE IF out = "iterate_github" THEN "error"
                          ELSE IF suspended THEN @
                          ELSE "success"]
  /\ UNCHANGED <<not_h, processing_issues, pr_iteration_counts, created,
                 branches, prs, notices>>

(* ---------------- ReviewAgent: the update of the record ---------------- *)
\* review_agent.py 171-186, reached from the review endpoint the workflow
\* calls (api.py 110-116): the record is loaded; when it is there and has a
\* Step, the latest Step gets status completed (approved) or needs_changes
\* and the summary as its feedback, and the record is saved.  No await
\* stands between the load and the save.  The summary is several parts
\* joined by newlines (review_agent.py 452-491), so the saved text always
\* holds one.
ReviewUpdate ==
  \E p \in 1..Len(prs), approved \in BOOLEAN :
    LET st == prs[p].state
        n == Len(st.iterations)
        status == IF approved THEN "completed" ELSE "needs_changes"
    IN /\ st.present /\ n > 0
       /\ prs' = [prs EXCEPT ![p].state =
                    stored_record([st EXCEPT !.iterations[n].status = status], TRUE)]
       /\ UNCHANGED <<not_h, processing_issues, pr_iteration_counts, pc, ev,
                      result, fault, local_state, agent_calls, created,
                      branches, notices>>

(* ------ handle_pull_request_event and the kinds nothing handles -------- *)
PullRequestActions == {"opened", "closed"}

\* webhooks.py 236-254 and 490-493: a pull_request event is logged and
\* skipped whatever its action (closed stands for closed and merged: GitHub
\* sends both as action closed); a check_run event stands for the kinds
\* handle_webhook has no branch for.  No map is touched, nothing is called.
HandleOtherEvent(h) ==
  /\ MayStart(h)
  /\ \E kind \in {"pull_request", "check_run"}, action \in PullRequestActions :
     \E p \in IF kind = "pull_request" THEN 1..Len(prs) ELSE {0} :
       /\ kind = "check_run" => action = "opened"
       /\ ev' = [ev EXCEPT ![h] =
                   [NoEvent EXCEPT !.kind = kind, !.number = p,
                                   !.action = IF kind = "pull_request"
                                              THEN action ELSE @]]
       /\ result' = [result EXCEPT ![h] =
                       IF kind = "pull_request" THEN "reviews handled by workflow"
                       ELSE "ignored"]
       /\ pc' = [pc EXCEPT ![h] = "done"]
  /\ UNCHANGED <<not_h, processing_issues, pr_iteration_counts, fault,
                 local_state, agent_calls, created, branches, prs, notices>>

Next ==
  \/ \E h \in Handlers : HandlePullRequestReviewEvent(h)
  \/ \E h \in Handlers : ReviewToken(h)
  \/ \E h \in Handlers : HandleIssueEvent(h)
  \/ \E h \in Handlers : IssueToken(h)
  \/ \E h \in Handlers : IssueGenerate(h)
  \/ \E h \in Handlers : HandleIssueCommentEvent(h)
  \/ \E h \in Handlers : PostNotice(h)
  \/ \E h \in Handlers : IterateToken(h)
  \/ \E h \in Handlers : IterateGenerate(h)
  \/ \E h \in Handlers : HandleOtherEvent(h)
  \/ ReviewUpdate

Spec == Init /\ [][Next]_vars

(* ================= GitHubClient.get_ci_status (client.py) ============== *)
\* A check run, by what the fold reads of it: "in_progress" stands for every
\* status other than "completed", the rest are conclusions of completed runs
\* ("timed_out" for every conclusion the match statement does not name).
RunKinds == {"in_progress", "success", "failure", "cancelled", "skipped", "timed_out"}

RunSeqs == UNION {[1..n -> RunKinds] : n \in 0..MaxRuns}

\* the status given to the CICheck of one run (client.py 263-279)
check_status(run) ==
  CASE run = "in_progress" -> "pending"
    [] run = "success" -> "success"
    [] run = "failure" -> "failure"
    [] run \in {"cancelled", "skipped"} -> "cancelled"
    [] OTHER -> "error"

\* overall_status after the loop body has handled one run (client.py 263-279)
next_overall(overall, run) ==
  CASE run = "in_progress" -> "pending"
    [] run = "failure" -> "failure"
    [] run \in {"success", "cancelled", "skipped"} -> overall
    [] OTHER -> "error"

RECURSIVE fold_overall(_, _)
fold_overall(overall, runs) ==
  IF runs = <<>> THEN overall
  ELSE fold_overall(next_overall(overall, Head(runs)), Tail(runs))

\* the CIResult returned when no call raises (client.py 249-296)
get_ci_status(has_commits, runs) ==
  IF ~has_commits THEN [status |-> "pending", checks |-> <<>>]
  ELSE [status |-> fold_overall("success", runs),
        checks |-> [k \in 1..Len(runs) |-> check_status(runs[k])]]

\* the same call, one loop iteration per step
CIBegin ==
  /\ ci_pc = "start"
  /\ IF ci_has_commits
     THEN /\ ci_pc' = "loop"
          /\ overall_status' = "success"
     ELSE /\ ci_pc' = "returned"
          /\ overall_status' = "pending"
  /\ checks' = <<>>
  /\ ci_pos' = 0
  /\ UNCHANGED <<ci_has_commits, ci_runs, not_ci>>

CIRun ==
  /\ ci_pc = "loop"
  /\ ci_pos < Len(ci_runs)
  /\ LET run == ci_runs[ci_pos + 1] IN
       /\ overall_status' = next_overall(overall_status, run)
       /\ checks' = Append(checks, check_status(run))
  /\ ci_pos' = ci_pos + 1
  /\ UNCHANGED <<ci_pc, ci_has_commits, ci_runs, not_ci>>

CIReturn ==
  /\ ci_pc = "loop"
  /\ ci_pos = Len(ci_runs)
  /\ ci_pc' = "returned"
  /\ UNCHANGED <<ci_has_commits, ci_runs, ci_pos, overall_status, checks, not_ci>>

\* a GithubException from get_pull, get_commits or the paginated check runs
CIRaise ==
  /\ ci_pc \in {"start", "loop"}
  /\ ci_pc' = "raised"
  /\ UNCHANGED <<ci_has_commits, ci_runs, ci_pos, overall_status, checks, not_ci>>

InitCI ==
  /\ HStart(FALSE)
  /\ WStart
  /\ ANIdle
  /\ STIdle
  /\ EPIdle
  /\ ci_pc = "start"
  /\ ci_has_commits \in BOOLEAN
  /\ ci_runs \in RunSeqs
  /\ ci_pos = 0
  /\ overall_status = "unset"
  /\ checks = <<>>

NextCI == CIBegin \/ CIRun \/ CIReturn \/ CIRaise

SpecCI == InitCI /\ [][NextCI]_vars

(* ================ ReviewAgent._wait_for_ci (review_agent.py) =========== *)
pending_checks_by_status(res) ==
  IF res.status = "pending" THEN DOMAIN res.checks ELSE {}

\* the list "pending" of review_agent.py 227-230, as indices into checks
pending_checks(res) == {k \in DOMAIN res.checks : res.checks[k] = "pending"}

\* what one get_ci_status call can return
PollResults ==
  {get_ci_status(TRUE, runs) : runs \in RunSeqs} \cup {get_ci_status(FALSE, <<>>)}

\* review_agent.py 224: one get_ci_status call, on whatever the pull request
\* shows at that moment; it may raise, and it takes d seconds: a negligible
\* time or, for a slow API, as long as one poll interval
WaitPoll ==
  /\ w_pc = "poll"
  /\ polled' = TRUE
  /\ late_polls' = late_polls + (IF now >= timeout_seconds THEN 1 ELSE 0)
  /\ \E d \in {0, poll_interval} : now' = now + d
  /\ \/ /\ w_pc' = "raised"
        /\ UNCHANGED ci_result
     \/ /\ w_pc' = "check"
        /\ ci_result' \in PollResults
  /\ UNCHANGED not_w

\* review_agent.py 227-241: return, or go on to sleep
WaitCheck ==
  /\ w_pc = "check"
  /\ w_pc' = IF pending_checks(ci_result) = {} THEN "returned"
             ELSE IF now >= timeout_seconds THEN "returned"
             ELSE "sleep"
  /\ UNCHANGED <<now, ci_result, polled, late_polls, not_w>>

\* review_agent.py 242: asyncio.sleep(poll_interval)
WaitSleep ==
  /\ w_pc = "sleep"
  /\ now' = now + poll_interval
  /\ w_pc' = "poll"
  /\ UNCHANGED <<ci_result, polled, late_polls, not_w>>

InitWait == HStart(FALSE) /\ CIIdle /\ WStart /\ ANIdle /\ STIdle /\ EPIdle

NextWait == WaitPoll \/ WaitCheck \/ WaitSleep

SpecWait == InitWait /\ [][NextWait]_vars

\* the event loop resumes the coroutine whenever its call or sleep is over
FairSpecWait == SpecWait /\ WF_vars(NextWait)


(* ================ ReviewAgent._analyze_ci (review_agent.py) ============ *)
\* ReviewAgent.PATCHER_CI_PATTERNS (review_agent.py 275)
PATCHER_CI_PATTERNS ==
  { <<"e","l","p","a","t","c","h","e","r">>,
    <<"p","a","t","c","h","e","r">>,
    <<"a","i","-","r","e","v","i","e","w">> }

is_patcher_ci_case_sensitive(check_name) ==
  \E pat \in PATCHER_CI_PATTERNS : contains(check_name, pat)

\* ReviewAgent._is_patcher_ci (review_agent.py 277-287)
is_patcher_ci(check_name) ==
  \E pat \in PATCHER_CI_PATTERNS : contains(lower(check_name), pat)

\* names a check can have: three that match a pattern (one only after
\* lower-casing, one inside a longer word) and three that match none
CheckNames ==
  { <<"e","l","p","a","t","c","h","e","r","-","c","i">>,
    <<"A","I","-","R","e","v","i","e","w">>,
    <<"d","i","s","p","a","t","c","h","e","r">>,
    <<"l","i","n","t">>,
    <<"p","a","t","c","h">>,
    <<"a","i","-","r","e","v">> }

\* CIStatus of a CICheck (github/models.py 8-15)
CheckStatuses == {"pending", "success", "failure", "cancelled", "error"}

CheckSeqs ==
  UNION {[1..n -> [name : CheckNames, status : CheckStatuses]] : n \in 0..MaxChecks}

RECURSIVE select_checks(_, _)
\* the list comprehension of review_agent.py 305-308
select_checks(cs, only) ==
  IF cs = <<>> THEN <<>>
  ELSE IF ~only \/ is_patcher_ci(Head(cs).name)
       THEN <<Head(cs)>> \o select_checks(Tail(cs), only)
       ELSE select_checks(Tail(cs), only)

RECURSIVE failed_names(_)
\* the loop of review_agent.py 312-315
failed_names(cs) ==
  IF cs = <<>> THEN <<>>
  ELSE IF Head(cs).status = "failure"
       THEN <<Head(cs).name>> \o failed_names(Tail(cs))
       ELSE failed_names(Tail(cs))

\* review_agent.py 304-325 and, when nothing failed, 348-362
AnalyzeChecks ==
  /\ an_pc = "start"
  /\ LET rel == select_checks(an_checks, patcher_only)
         fs == failed_names(rel)
         ok == IF rel = <<>> THEN TRUE ELSE fs = <<>>
     IN /\ relevant_checks' = rel
        /\ failures' = fs
        /\ passed' = ok
        /\ an_pc' = IF ~ok /\ fs # <<>> THEN "llm" ELSE "returned"
  /\ UNCHANGED <<an_checks, patcher_only, not_an>>

\* review_agent.py 337-346: the verdict is the one the language model gives
\* for the failures it was shown; the call may raise
AnalyzeFailures ==
  /\ an_pc = "llm"
  /\ \E out \in {"passed", "not passed", "raised"} :
       IF out = "raised"
       THEN /\ an_pc' = "raised"
            /\ UNCHANGED passed
       ELSE /\ an_pc' = "returned"
            /\ passed' = (out = "passed")
  /\ UNCHANGED <<an_checks, patcher_only, relevant_checks, failures, not_an>>

InitAnalyze ==
  /\ HStart(FALSE)
  /\ CIIdle
  /\ WStart
  /\ STIdle
  /\ EPIdle
  /\ an_pc = "start"
  /\ an_checks \in CheckSeqs
  /\ patcher_only \in BOOLEAN
  /\ relevant_checks = <<>>
  /\ failures = <<>>
  /\ passed = TRUE

NextAnalyze == AnalyzeChecks \/ AnalyzeFailures

SpecAnalyze == InitAnalyze /\ [][NextAnalyze]_vars

(* ================= StateManager (state/manager.py) ===================== *)
\* A text is a sequence of tokens: the two markers, single characters
\* ("NL" newline, "QUOTE" double quote, "BS" backslash, "ESC" the control
\* character U+001B, " " a space, letters and braces) and, standing for a
\* whole JSON document each, the tokens of OtherDocs.
STATE_MARKER_START == "<!-- PATCHER_STATE_START"
STATE_MARKER_END == "PATCHER_STATE_END -->"

RECURSIVE concat_all(_)
concat_all(parts) ==
  IF parts = <<>> THEN <<>> ELSE Head(parts) \o concat_all(Tail(parts))

\* json.dumps on one character of a string (ensure_ascii=False still escapes
\* quotes, backslashes and control characters; "BS","u" stands for \u001b)
json_escape(c) ==
  CASE c = "NL" -> <<"BS", "n">>
    [] c = "QUOTE" -> <<"BS", "QUOTE">>
    [] c = "BS" -> <<"BS", "BS">>
    [] c = "ESC" -> <<"BS", "u">>
    [] OTHER -> <<c>>

json_string(text) == concat_all([k \in 1..Len(text) |-> json_escape(text[k])])

\* json.dumps(state.to_dict(), ...) (manager.py 36, models.py 77-98): of the
\* record the model keeps one text field, review_feedback
to_json(st) == <<"{", "QUOTE">> \o json_string(st.review_feedback) \o <<"QUOTE", "}">>

\* manager.py 37 and format_state_for_pr (manager.py 112-113)
state_block(st) ==
  <<STATE_MARKER_START, "NL">> \o to_json(st) \o <<"NL", STATE_MARKER_END>>

RECURSIVE json_unescape(_)
\* the inside of a JSON string as json.loads reads it: [ok, text]
json_unescape(t) ==
  IF t = <<>> THEN [ok |-> TRUE, text |-> <<>>]
  ELSE IF Head(t) \in {"NL", "ESC", "QUOTE"} THEN [ok |-> FALSE, text |-> <<>>]
  ELSE IF Head(t) = "BS"
  THEN IF Len(t) = 1 \/ t[2] \notin {"n", "QUOTE", "BS", "u"}
       THEN [ok |-> FALSE, text |-> <<>>]
       ELSE LET rest == json_unescape(SubSeq(t, 3, Len(t)))
                c == CASE t[2] = "n" -> "NL" [] t[2] = "QUOTE" -> "QUOTE"
                       [] t[2] = "BS" -> "BS" [] OTHER -> "ESC"
            IN [ok |-> rest.ok, text |-> <<c>> \o rest.text]
  ELSE LET rest == json_unescape(Tail(t))
       IN [ok |-> rest.ok, text |-> <<Head(t)>> \o rest.text]

\* JSON documents other than a complete record, one token each, with what
\* AgentState.from_dict does on them (models.py 110-133)
OtherDocs ==
  {"[1]", "null", "5", "{}", "{status: bogus}", "{iterations: 5}",
   "{created_at: 5}", "{created_at: zzz}"}

from_dict_raises(doc) ==
  CASE doc \in {"[1]", "null", "5"} -> "TypeError"          \* data["issue_number"]
    [] doc = "{}" -> "KeyError"                              \* data["issue_number"]
    [] doc = "{status: bogus}" -> "ValueError"               \* IterationStatus(...)
    [] doc = "{iterations: 5}" -> "TypeError"                \* for it_data in 5
    [] doc = "{created_at: 5}" -> "TypeError"                \* fromisoformat(5)
    [] doc = "{created_at: zzz}" -> "ValueError"             \* fromisoformat("zzz")

Whitespace == {" ", "NL"}

RECURSIVE lstrip(_)
lstrip(t) == IF t # <<>> /\ Head(t) \in Whitespace THEN lstrip(Tail(t)) ELSE t

RECURSIVE rstrip(_)
rstrip(t) ==
  IF t # <<>> /\ t[Len(t)] \in Whitespace THEN rstrip(SubSeq(t, 1, Len(t) - 1)) ELSE t

\* str.strip
strip(t) == rstrip(lstrip(t))

\* json.loads followed by AgentState.from_dict (manager.py 68-69): the
\* record, or the exception raised
decode(group) ==
  LET t == strip(group) IN
  IF Len(t) = 1 /\ t[1] \in OtherDocs
  THEN [kind |-> "raised", exc |-> from_dict_raises(t[1])]
  ELSE IF Len(t) >= 4 /\ SubSeq(t, 1, 2) = <<"{", "QUOTE">>
             /\ SubSeq(t, Len(t) - 1, Len(t)) = <<"QUOTE", "}">>
  THEN LET u == json_unescape(SubSeq(t, 3, Len(t) - 2))
       IN IF u.ok THEN [kind |-> "record", state |-> [review_feedback |-> u.text]]
          ELSE [kind |-> "raised", exc |-> "JSONDecodeError"]
  ELSE [kind |-> "raised", exc |-> "JSONDecodeError"]

\* position of the first tok in t at or after from, 0 when there is none
first_index(t, tok, from) ==
  LET hits == {k \in from..Len(t) : t[k] = tok}
  IN IF hits = {} THEN 0 ELSE CHOOSE k \in hits : \A m \in hits : k <= m

\* re.search(START.*?END, DOTALL): [i, j] of the leftmost block, i = 0 if none
find_block(t) ==
  LET i == first_index(t, STATE_MARKER_START, 1)
      j == IF i = 0 THEN 0 ELSE first_index(t, STATE_MARKER_END, i + 1)
  IN IF j = 0 THEN [i |-> 0, j |-> 0] ELSE [i |-> i, j |-> j]

RECURSIVE expand(_)
\* the replacement argument of re.sub is a template: backslash escapes in it
\* are interpreted ([ok, text]; an unknown letter escape is re.error)
expand(t) ==
  IF t = <<>> THEN [ok |-> TRUE, text |-> <<>>]
  ELSE IF Head(t) = "BS" /\ Len(t) >= 2
  THEN LET rest == expand(SubSeq(t, 3, Len(t))) IN
       CASE t[2] = "n" -> [ok |-> rest.ok, text |-> <<"NL">> \o rest.text]
         [] t[2] = "BS" -> [ok |-> rest.ok, text |-> <<"BS">> \o rest.text]
         [] t[2] = "u" -> [ok |-> FALSE, text |-> <<>>]
         [] OTHER -> [ok |-> rest.ok, text |-> <<"BS", t[2]>> \o rest.text]
  ELSE LET rest == expand(Tail(t))
       IN [ok |-> rest.ok, text |-> <<Head(t)>> \o rest.text]

\* the substitution with a greedy pattern (START.*END): one match from the
\* first start marker to the last end marker
sub_blocks_greedy(t, repl) ==
  LET i == first_index(t, STATE_MARKER_START, 1)
      js == {k \in (i + 1)..Len(t) : t[k] = STATE_MARKER_END}
  IN IF i = 0 \/ js = {} THEN t
     ELSE LET j == CHOOSE k \in js : \A m \in js : m <= k
          IN SubSeq(t, 1, i - 1) \o repl \o SubSeq(t, j + 1, Len(t))

RECURSIVE sub_blocks(_, _)
\* re.sub(START.*?END, repl, body, DOTALL): every block replaced
sub_blocks(t, repl) ==
  LET b == find_block(t) IN
  IF b.i = 0 THEN t
  ELSE SubSeq(t, 1, b.i - 1) \o repl \o sub_blocks(SubSeq(t, b.j + 1, Len(t)), repl)

\* re.sub(pattern, state_block, body, flags=re.DOTALL) (manager.py 42)
sub_template(t, block) ==
  LET e == expand(block) IN
  IF e.ok THEN [raised |-> FALSE, body |-> sub_blocks(t, e.text)]
  ELSE [raised |-> TRUE, body |-> t]

\* StateManager.save_to_pr (manager.py 25-46): the new description, or
\* raised with the description untouched (update_pr is not reached)
save_to_pr(body, st) ==
  IF find_block(body).i # 0
  THEN sub_template(body, state_block(st))
  ELSE [raised |-> FALSE, body |-> body \o <<"NL", "NL">> \o state_block(st)]

\* re.search(START\n(.*?)\nEND, DOTALL) (manager.py 61-62): the group of the
\* leftmost match as [found, group]
search_state(t) ==
  LET begins == {i \in 1..Len(t) :
                   /\ t[i] = STATE_MARKER_START
                   /\ i + 1 <= Len(t) /\ t[i + 1] = "NL"
                   /\ \E j \in (i + 2)..(Len(t) - 1) :
                        t[j] = "NL" /\ t[j + 1] = STATE_MARKER_END}
  IN IF begins = {} THEN [found |-> FALSE, group |-> <<>>]
     ELSE LET i == CHOOSE k \in begins : \A m \in begins : k <= m
              ends == {j \in (i + 2)..(Len(t) - 1) :
                         t[j] = "NL" /\ t[j + 1] = STATE_MARKER_END}
              j == CHOOSE k \in ends : \A m \in ends : k <= m
          IN [found |-> TRUE, group |-> SubSeq(t, i + 2, j - 1)]

\* the exceptions load_from_pr catches (manager.py 70)
Caught == {"JSONDecodeError", "KeyError", "ValueError"}

\* StateManager.load_from_pr (manager.py 48-71): a record, None, or an
\* exception that leaves the method
load_from_pr(body) ==
  LET m == search_state(body) IN
  IF ~m.found THEN [kind |-> "none"]
  ELSE LET d == decode(m.group) IN
       IF d.kind = "raised" /\ d.exc \in Caught THEN [kind |-> "none"] ELSE d

\* number of newline tokens directly before position i / directly after j
nl_before(t, i) ==
  LET ks == {k \in 0..(i - 1) : \A m \in (i - k)..(i - 1) : t[m] = "NL"}
  IN CHOOSE k \in ks : \A m \in ks : m <= k

nl_after(t, j) ==
  LET ks == {k \in 0..(Len(t) - j) : \A m \in (j + 1)..(j + k) : t[m] = "NL"}
  IN CHOOSE k \in ks : \A m \in ks : m <= k

\* the substitution with the pattern START.*?END alone, the newlines around
\* a block left where they are
remove_blocks_unpadded(t) == sub_blocks(t, <<>>)

RECURSIVE remove_blocks(_)
\* re.sub(\n*START.*?END\n*, "", body, DOTALL) (manager.py 124-125)
remove_blocks(t) ==
  LET b == find_block(t) IN
  IF b.i = 0 THEN t
  ELSE SubSeq(t, 1, b.i - 1 - nl_before(t, b.i))
         \o remove_blocks(SubSeq(t, b.j + 1 + nl_after(t, b.j), Len(t)))

\* StateManager.extract_visible_body (manager.py 115-126)
extract_visible_body(body) == strip(remove_blocks(body))

\* sequences over S of length at most n
SeqsUpTo(S, n) == UNION {[1..k -> S] : k \in 0..n}

\* characters of a text field: a letter, a newline, a double quote, a
\* backslash, a control character
TextChars == {"n", "NL", "QUOTE", "BS", "ESC"}

\* the records (AgentState) by their text field
Records == {[review_feedback |-> f] : f \in SeqsUpTo(TextChars, MaxText)}

\* text before and after the block
Pads == SeqsUpTo({"a", " ", "NL"}, MaxPad)

\* what stands between them: nothing, a block written by save_to_pr, a block
\* with blank lines around it, a block holding another JSON document or no
\* JSON at all, markers without the newlines, a lone marker, two blocks, and
\* the block format_state_for_pr writes for a record whose text holds a
\* backslash
Middles ==
  {<<>>, state_block([review_feedback |-> <<"n">>]),
   state_block([review_feedback |-> <<"BS">>]),
   <<"NL", "NL">> \o state_block([review_feedback |-> <<"n">>]) \o <<"NL", "NL">>,
   <<STATE_MARKER_START, "NL", "a", "NL", STATE_MARKER_END>>,
   <<STATE_MARKER_START, "a", STATE_MARKER_END>>,
   <<STATE_MARKER_START>>, <<STATE_MARKER_END>>,
   state_block([review_feedback |-> <<"n">>]) \o <<"a">>
     \o state_block([review_feedback |-> <<"a">>])}
  \cup {<<STATE_MARKER_START, "NL", doc, "NL", STATE_MARKER_END>> : doc \in OtherDocs}

\* the descriptions a pull request can carry
Texts == {pre \o mid \o post : pre \in Pads, mid \in Middles, post \in Pads}

\* save_to_pr(pr, state) on the description (manager.py 25-46)
SaveToPr ==
  /\ st_pc \in {"start", "saved"}
  /\ saves < MaxSaves
  /\ LET r == save_to_pr(pr_body, state) IN
       IF r.raised
       THEN st_pc' = "raised" /\ UNCHANGED <<pr_body, saves>>
       ELSE st_pc' = "saved" /\ pr_body' = r.body /\ saves' = saves + 1
  /\ UNCHANGED <<body0, state, loaded, visible, comment_result, not_st>>

\* load_from_pr(pr) (manager.py 48-71)
LoadFromPr ==
  /\ st_pc \in {"start", "saved"}
  /\ loaded' = load_from_pr(pr_body)
  /\ st_pc' = IF loaded'.kind = "raised" THEN "raised" ELSE "loaded"
  /\ UNCHANGED <<body0, pr_body, state, saves, visible, comment_result, not_st>>

\* extract_visible_body(pr.body) (manager.py 115-126)
ExtractVisibleBody ==
  /\ st_pc \in {"start", "saved"}
  /\ visible' = extract_visible_body(pr_body)
  /\ st_pc' = "extracted"
  /\ UNCHANGED <<body0, pr_body, state, saves, loaded, comment_result, not_st>>

\* handle_issue_comment_event once the routing has let the mention through
\* and no service call fails (webhooks.py 405-452), on the description
\* pr_body: load_from_pr, the test of its result, then the increment of the
\* in-memory counter and the call of CodeAgent.iterate.  An exception that
\* leaves load_from_pr is caught by the handler's except clause.
HandleMention ==
  /\ st_pc \in {"start", "saved"}
  /\ LET l == load_from_pr(pr_body) IN
       comment_result' =
         CASE l.kind = "raised" -> [NoComment EXCEPT !.status = "error"]
           [] l.kind = "none" -> [NoComment EXCEPT !.status = "skipped"]
           [] OTHER -> [status |-> "advanced", counter |-> 1, agent_calls |-> 1]
  /\ st_pc' = "mentioned"
  /\ UNCHANGED <<body0, pr_body, state, saves, loaded, visible, not_st>>

InitState ==
  /\ HStart(FALSE)
  /\ CIIdle
  /\ WStart
  /\ ANIdle
  /\ EPIdle
  /\ st_pc = "start"
  /\ body0 \in Texts
  /\ pr_body = body0
  /\ state \in Records
  /\ saves = 0
  /\ loaded = [kind |-> "unset"]
  /\ visible = <<>>
  /\ comment_result = NoComment

NextState == SaveToPr \/ LoadFromPr \/ ExtractVisibleBody \/ HandleMention

SpecState == InitState /\ [][NextState]_vars

(* ================= POST /webhook (app.py, webhooks.py) ================= *)
\* requests served in one behaviour
MaxDeliveries == 2

\* the secrets a server is configured with; <<>> is the empty default of
\* Settings.github_webhook_secret (config.py 27)
Secrets == {<<>>, <<"k1">>, <<"k2">>}

\* request bodies: a JSON document, and bytes that are no JSON
Bodies == {"json", "garbage"}

\* "sha256=" + hmac.new(secret, body, sha256).hexdigest() (webhooks.py
\* 135-142).  The digest is kept symbolic: different (secret, body) pairs
\* have different digests.
expected_signature(secret, payload) == <<"sha256=">> \o secret \o <<payload>>

\* the X-Hub-Signature-256 headers sent: none, the signature of a body under
\* a key, the same digest announced as sha1, and a value with a character
\* outside ASCII (header bytes are decoded as latin-1)
SignatureHeaders ==
  {<<>>, <<"sha256=", "e-acute">>}
  \cup {expected_signature(k, b) : k \in Secrets \ {<<>>}, b \in Bodies}
  \cup {<<"sha1=", "k1", b>> : b \in Bodies}

is_ascii(header) == \A i \in 1..Len(header) : header[i] # "e-acute"

\* X-GitHub-Event: absent, ping, an event kind
EventTypes == {"", "ping", "issues"}

\* verify_webhook_signature (webhooks.py 111-147): "ok" when it returns
\* True, 401 when it raises HTTPException, 500 when hmac.compare_digest
\* raises TypeError (it refuses a str with a character outside ASCII) and
\* the server answers Internal Server Error
verify_webhook_signature(secret, header, payload) ==
  IF secret = <<>> THEN "ok"
  ELSE IF header = <<>> THEN "401"
  ELSE IF ~is_ascii(header) THEN "500"
  ELSE IF header # expected_signature(secret, payload) THEN "401"
  ELSE "ok"

\* a request arrives
Deliver ==
  /\ ep_pc = "idle"
  /\ deliveries < MaxDeliveries
  /\ signature_header' \in SignatureHeaders
  /\ raw_body' \in Bodies
  /\ event_type' \in EventTypes
  /\ ep_pc' = "verify"
  /\ status_code' = 0
  /\ tasks' = 0
  /\ UNCHANGED <<github_webhook_secret, deliveries, not_ep>>

\* app.py 72-75: the body is read and verify_webhook_signature is awaited
Verify ==
  /\ ep_pc = "verify"
  /\ LET v == verify_webhook_signature(github_webhook_secret, signature_header, raw_body)
     IN IF v = "ok"
        THEN ep_pc' = "parse" /\ UNCHANGED <<status_code, deliveries>>
        ELSE /\ ep_pc' = "idle"
             /\ status_code' = IF v = "401" THEN 401 ELSE 500
             /\ deliveries' = deliveries + 1
  /\ UNCHANGED <<github_webhook_secret, signature_header, raw_body, event_type,
                 tasks, not_ep>>

\* app.py 77-99: the JSON is parsed, the event header read, a ping answered,
\* every other event handed to a background task
Dispatch ==
  /\ ep_pc = "parse"
  /\ IF raw_body # "json" \/ event_type = ""
     THEN status_code' = 400 /\ tasks' = 0
     ELSE IF event_type = "ping"
     THEN status_code' = 200 /\ tasks' = 0
     ELSE status_code' = 200 /\ tasks' = 1
  /\ ep_pc' = "idle"
  /\ deliveries' = deliveries + 1
  /\ UNCHANGED <<github_webhook_secret, signature_header, raw_body, event_type, not_ep>>

InitHook ==
  /\ HStart(FALSE) /\ CIIdle /\ WStart /\ ANIdle /\ STIdle
  /\ ep_pc = "idle"
  /\ github_webhook_secret \in Secrets
  /\ signature_header = <<>>
  /\ raw_body = "none"
  /\ event_type = ""
  /\ status_code = 0
  /\ tasks = 0
  /\ deliveries = 0

NextHook == Deliver \/ Verify \/ Dispatch

SpecHook == InitHook /\ [][NextHook]_vars

(* ========================= properties: dedup guard ==================== *)
\* handler h holds the flag of issue i: between its acquire and its release
Holder(h, i) ==
  /\ ev[h].kind = "issues"
  /\ ev[h].number = i
  /\ pc[h] \in {"issue_token", "issue_llm"}

\* C1: of the handlers that call mark_issue_processing for one issue while
\* one of them is between acquire and release, exactly one got True: at most
\* one handler holds an issue's flag, and a call returned False only while
\* another handler held it.
C1_OneHolderPerIssue ==
  /\ \A i \in Issues : Cardinality({h \in Handlers : Holder(h, i)}) <= 1
  /\ \A h \in Handlers :
       (ev[h].kind = "issues" /\ ev[h].accepted /\ result[h] = "already processing")
         => ev[h].overlap

C1_Witness ==
  \E h, g \in Handlers :
    /\ h # g
    /\ Holder(h, ev[g].number)
    /\ ev[g].kind = "issues"
    /\ result[g] = "already processing"

\* C2: a delivery for an issue whose earlier delivery is still being handled
\* returns skipped / "already processing", never calls the code agent and
\* creates no branch, no commit and no pull request.
C2_OverlapSkipped ==
  \A h \in Handlers :
    (ev[h].kind = "issues" /\ ev[h].accepted /\ ev[h].overlap)
      => /\ pc[h] = "done"
         /\ result[h] = "already processing"
         /\ agent_calls[h] = 0
         /\ created[h] = NoArtifacts

C2_Witness ==
  \E h, g \in Handlers :
    /\ Holder(g, ev[h].number)
    /\ ev[g].action = "opened"
    /\ ev[h].kind = "issues"
    /\ ev[h].action = "labeled"
    /\ ev[h].overlap
    /\ result[h] = "already processing"

\* C3 (as stated): whatever deliveries arrive for one issue, at most one of
\* their handlers opens a pull request.
C3_AtMostOnePR ==
  \A i \in Issues :
    Cardinality({h \in Handlers : /\ ev[h].kind = "issues"
                                  /\ ev[h].number = i
                                  /\ created[h].prs = 1}) <= 1

\* C4: a handler that acquired an issue's flag has cleared it when it has
\* returned, however it returned: the flag is set exactly while a handler is
\* between acquire and release, so the next acquire succeeds.
C4_FlagClearedOnReturn ==
  \A i \in Issues :
    is_issue_processing(processing_issues, i) <=> \E h \in Handlers : Holder(h, i)

C4_Witness ==
  \E h, g \in Handlers :
    /\ ev[h].kind = "issues"
    /\ pc[h] = "done"
    /\ fault[h] = "token"
    /\ result[h] = "error"
    /\ Holder(g, ev[h].number)

(* ===================== properties: iteration budget =================== *)
\* the handlers that called increment_pr_iteration and CodeAgent.iterate for p
Incs(p) ==
  Cardinality({h \in Handlers : /\ ev[h].kind = "issue_comment"
                                /\ ev[h].number = p
                                /\ agent_calls[h] = 1})

\* handler h read a counter at or above the maximum (webhooks.py 361-362)
Exhausted(h) ==
  /\ ev[h].kind = "issue_comment"
  /\ ev[h].accepted
  /\ ev[h].cur >= max_iterations

\* C5: the counter of a pull request is the number of its advances, so it is
\* at least max_iterations after that many; an advance request that reads it
\* at or above the maximum returns max_iterations_reached, never calls
\* CodeAgent.iterate and never changes the counter.
C5_BudgetGate ==
  /\ \A p \in PRNums : pr_iteration_counts[p] = Incs(p)
  /\ \A h \in Handlers :
       Exhausted(h) => /\ pc[h] \in {"notice_token", "done"}
                       /\ agent_calls[h] = 0
                       /\ pc[h] = "done" => result[h] = "max_iterations_reached"

C5_Witness ==
  \E h \in Handlers :
    /\ Exhausted(h)
    /\ pc[h] = "done"
    /\ result[h] = "max_iterations_reached"
    /\ pr_iteration_counts[ev[h].number] = max_iterations
    /\ Incs(ev[h].number) = max_iterations

C7_CounterBounded ==
  \A p \in PRNums :
    /\ pr_iteration_counts[p] <= max_iterations
    /\ Incs(p) <= max_iterations

(* ====================== properties: get_ci_status ===================== *)
\* C8 (as stated): a pending check makes the verdict pending wherever it
\* stands in the list; [success, failure] gives failure, [success, success]
\* gives success and no check run at all gives success.
C8_PendingWins ==
  (ci_pc = "returned" /\ ci_has_commits)
    => /\ (\E k \in 1..Len(ci_runs) : ci_runs[k] = "in_progress")
            => overall_status = "pending"
       /\ ci_runs = <<"success", "failure">> => overall_status = "failure"
       /\ ci_runs = <<"success", "success">> => overall_status = "success"
       /\ ci_runs = <<>> => overall_status = "success"

\* C9 (as stated): the running verdict starts at success; once it is failure
\* or error no later completed check changes it; no check moves it back to
\* success.
C9_FirstFailureWins ==
  [][/\ (ci_pc = "start" /\ ci_pc' = "loop") => overall_status' = "success"
     /\ (ci_pc = "loop" /\ ci_pos' = ci_pos + 1)
          => /\ (overall_status \in {"failure", "error"}
                   /\ ci_runs[ci_pos + 1] # "in_progress")
                  => overall_status' = overall_status
             /\ overall_status' = "success" => overall_status = "success"]_vars

(* ====================== properties: _wait_for_ci ====================== *)
HasPending(res) == \E k \in DOMAIN res.checks : res.checks[k] = "pending"

C10_Safe ==
  /\ w_pc \in {"returned", "raised"} => polled
  /\ w_pc = "returned" => (~HasPending(ci_result) \/ now >= timeout_seconds)
  /\ w_pc = "sleep" => (HasPending(ci_result) /\ now < timeout_seconds)
  /\ late_polls <= 1

NameMatches(name) == \E pat \in PATCHER_CI_PATTERNS : contains(lower(name), pat)

C12_CIPathFirst ==
  \A h \in Handlers :
    (ev[h].kind = "issue_comment" /\ ev[h].ci_failed /\ ev[h].feedback)
      => ev[h].path = "ci"


(* ==================== properties: persisted state ====================== *)
\* C13: round-trip law. For every record R and every description T, with or
\* without a block, load_from_pr on the text written by save_to_pr(T, R)
\* returns R: the save does not raise, and the load that follows one save
\* yields a record equal to the one saved.
C13_RoundTrip ==
  /\ (st_pc = "raised" /\ loaded.kind = "unset") => saves # 0
  /\ (saves = 1 /\ loaded.kind # "unset")
       => loaded = [kind |-> "record", state |-> state]

\* C14: load_from_pr never raises because of the description's content; a
\* description without a marker pair, or whose block does not parse into a
\* record, gives None.
C14_LoadNeverRaises == loaded.kind # "raised"


RECURSIVE outside(_, _)
\* a text read left to right with every fenced block (a start marker up to
\* the next end marker) collapsed into the one token "BLOCK"
outside(t, inside) ==
  IF t = <<>> THEN <<>>
  ELSE IF inside
  THEN outside(Tail(t), Head(t) # STATE_MARKER_END)
  ELSE IF Head(t) = STATE_MARKER_START
            /\ \E k \in 2..Len(t) : t[k] = STATE_MARKER_END
  THEN <<"BLOCK">> \o outside(Tail(t), TRUE)
  ELSE <<Head(t)>> \o outside(Tail(t), FALSE)

\* the text holds a fenced block
HasBlock(t) == \E k \in 1..Len(outside(t, FALSE)) : outside(t, FALSE)[k] = "BLOCK"

\* C15, as stated: save_to_pr changes only the fenced block. With a block in
\* the description, the text before its start marker and the text after its
\* end marker are the same after the save and one block stands between them;
\* without one the description is a prefix of the result and the new block
\* follows it.
C15_OnlyBlockChanges ==
  (saves = 1) =>
    IF HasBlock(body0)
    THEN \E i \in 1..Len(body0) : \E j \in (i + 1)..Len(body0) :
           /\ body0[i] = STATE_MARKER_START /\ body0[j] = STATE_MARKER_END
           /\ \A k \in 1..(i - 1) : body0[k] # STATE_MARKER_START
           /\ \A k \in (i + 1)..(j - 1) : body0[k] # STATE_MARKER_END
           /\ Len(pr_body) >= i + 1 + Len(body0) - j
           /\ SubSeq(pr_body, 1, i - 1) = SubSeq(body0, 1, i - 1)
           /\ SubSeq(pr_body, Len(pr_body) - (Len(body0) - j) + 1, Len(pr_body))
                = SubSeq(body0, j + 1, Len(body0))
    ELSE /\ Len(pr_body) > Len(body0)
         /\ SubSeq(pr_body, 1, Len(body0)) = body0

\* C15, amended: save_to_pr changes fenced blocks only. Every fenced block of
\* the description is replaced in place by the new block and every character
\* outside the fenced blocks is unchanged; without a block the description
\* is kept as a prefix and two newlines and the one new block follow it; a
\* save that raises leaves the description as it was.
C15_OnlyBlocksChange ==
  /\ (saves = 1 /\ HasBlock(body0))
       => outside(pr_body, FALSE) = outside(body0, FALSE)
  /\ (saves = 1 /\ ~HasBlock(body0)) =>
       LET n == Len(body0) IN
         /\ Len(pr_body) >= n + 4
         /\ SubSeq(pr_body, 1, n) = body0
         /\ SubSeq(pr_body, n + 1, n + 3) = <<"NL", "NL", STATE_MARKER_START>>
         /\ pr_body[Len(pr_body)] = STATE_MARKER_END
         /\ \A k \in (n + 4)..(Len(pr_body) - 1) :
              pr_body[k] \notin {STATE_MARKER_START, STATE_MARKER_END}
  /\ (saves = 0) => pr_body = body0

\* a save has replaced a block that had text on both sides
C15_Witness ==
  /\ saves = 1
  /\ HasBlock(body0)
  /\ body0[1] \notin {STATE_MARKER_START, "BLOCK"}
  /\ body0[Len(body0)] # STATE_MARKER_END
  /\ pr_body # body0


RECURSIVE drop_nl(_)
\* a text without the newlines it begins with
drop_nl(t) == IF t # <<>> /\ Head(t) = "NL" THEN drop_nl(Tail(t)) ELSE t

RECURSIVE unpad(_)
\* a collapsed text without its "BLOCK" tokens and without the newlines
\* directly before and directly after each of them
unpad(o) ==
  IF o = <<>> THEN <<>>
  ELSE LET r == drop_nl(o) IN
       IF r # <<>> /\ Head(r) = "BLOCK" THEN unpad(drop_nl(Tail(r)))
       ELSE <<Head(o)>> \o unpad(Tail(o))

\* C16, as stated: extract_visible_body returns the description with the
\* fenced block and the newlines around it removed and all other content
\* byte-identical, for every text, leading or trailing whitespace included;
\* the result contains no marker.
C16_VisibleExact ==
  (st_pc = "extracted") =>
    /\ visible = unpad(outside(pr_body, FALSE))
    /\ \A k \in 1..Len(visible) :
         visible[k] \notin {STATE_MARKER_START, STATE_MARKER_END}

\* C16, amended: extract_visible_body removes every fenced block with the
\* newlines directly around it and then strips the whitespace at the two ends
\* of what is left; every other character is kept, in order. The result holds
\* no fenced block (a marker without its partner stays).
C16_VisibleStripped ==
  (st_pc = "extracted") =>
    /\ \E i \in 0..Len(unpad(outside(pr_body, FALSE))) :
       \E j \in i..Len(unpad(outside(pr_body, FALSE))) :
         LET rest == unpad(outside(pr_body, FALSE)) IN
           /\ visible = SubSeq(rest, i + 1, j)
           /\ \A k \in (1..i) \cup ((j + 1)..Len(rest)) : rest[k] \in {" ", "NL"}
           /\ visible # <<>> =>
                visible[1] \notin {" ", "NL"} /\ visible[Len(visible)] \notin {" ", "NL"}
    /\ ~HasBlock(visible)

\* the visible part was taken of a description that begins with whitespace
\* and holds a fenced block and other text
C16_Witness ==
  /\ st_pc = "extracted"
  /\ HasBlock(pr_body)
  /\ pr_body[1] \in {" ", "NL"}
  /\ visible # <<>>


\* C17: idempotent re-merge. Saving the same record twice into a description
\* T succeeds and yields a text whose decoded record equals the record, that
\* holds exactly one fenced block, and whose visible content equals
\* extract_visible_body(T).
C17_IdempotentRemerge ==
  /\ (st_pc = "raised" /\ loaded.kind = "unset") => saves = 0
  /\ (saves = 2) =>
       /\ load_from_pr(pr_body) = [kind |-> "record", state |-> state]
       /\ Cardinality({k \in 1..Len(outside(pr_body, FALSE)) :
                         outside(pr_body, FALSE)[k] = "BLOCK"}) = 1
       /\ extract_visible_body(pr_body) = extract_visible_body(body0)


(* ========================= properties: routing ========================= *)
\* the handler has passed the routing rules and the dedup guard: it holds the
\* flag and is at or past the try block of handle_issue_event
Started(h) ==
  ev[h].kind = "issues" /\ ev[h].accepted /\ result[h] # "already processing"

Actionable(e) ==
  /\ e.action = "created"
  /\ e.is_pr
  /\ e.label \in {"elpatcher", "ai-review"}
  /\ \E k \in 1..Len(e.body) :
       /\ e.body[k] \in {"@", "/"}
       /\ k + 9 <= Len(e.body)
       /\ lower(SubSeq(e.body, k + 1, k + 9)) = <<"e","l","p","a","t","c","h","e","r">>

\* C19: a comment event leads to an advancement attempt only if the action is
\* created, the target is a pull request, it carries the elpatcher or the
\* ai-review label and the body matches the mention pattern whatever the case
\* of its letters; if one of these fails the event is skipped with a reason,
\* the budget is not checked and the code agent is not called.
C19_AdvanceOnlyIfRouted ==
  \A h \in Handlers :
    (ev[h].kind = "issue_comment") =>
      /\ pc[h] \in {"notice_token", "iter_token"} => ev[h].accepted /\ Actionable(ev[h])
      /\ ev[h].accepted => ev[h].action = "created" /\ ev[h].is_pr
      /\ ~ev[h].accepted =>
           /\ pc[h] = "done"
           /\ ~Actionable(ev[h])
           /\ result[h] \in {"unsupported action: edited", "not a pull request",
                             "no elpatcher/ai-review label", "no elpatcher mention"}
           /\ agent_calls[h] = 0
           /\ created[h] = NoArtifacts
           /\ ev[h].cur = 0 /\ ev[h].number = 0
      /\ (agent_calls[h] > 0 \/ created[h] # NoArtifacts
            \/ result[h] \in {"max_iterations_reached", "success", "error",
                              "no patcher state found"})
           => ev[h].accepted

\* one comment without the sigil was skipped on a labelled pull request and
\* another, "/ELPATCHER" on a pull request with the ai-review label, is on its
\* way to the advancement
C19_Witness ==
  \E g, h \in Handlers :
    /\ ev[g].kind = "issue_comment" /\ result[g] = "no elpatcher mention"
    /\ ev[g].label \in {"elpatcher", "ai-review"} /\ ev[g].body # <<>>
    /\ ev[h].kind = "issue_comment" /\ pc[h] = "iter_token"
    /\ ev[h].label = "ai-review" /\ ev[h].body[1] = "/"


\* the branch name is one CodeAgent._generate_branch_name gives
\* (code_agent.py 852-864): patcher/issue-<number>-<slug>
follows_convention(head_ref) ==
  \E i \in Issues, t \in Titles : head_ref = generate_branch_name(i, t)

\* C20: a review event leads to an advancement attempt only if the head
\* branch of the pull request follows the branch naming convention of
\* CodeAgent and the review state is changes_requested; in every other case
\* it is skipped, no state is loaded and no code agent is called.
C20_ReviewOnlyIfConvention ==
  \A h \in Handlers :
    (ev[h].kind = "pull_request_review") =>
      /\ ev[h].accepted =>
           follows_convention(ev[h].head) /\ ev[h].review = "changes_requested"
      /\ ~ev[h].accepted =>
           /\ pc[h] = "done"
           /\ result[h] \in {"not a patcher PR", "not a changes_requested review"}
           /\ agent_calls[h] = 0
           /\ created[h] = NoArtifacts

\* what the routing rules reject, read off the recorded payload alone: an
\* issue without the label or with another action than opened or labeled, a
\* comment that is not actionable, a review on a head outside elpatcher/ or
\* with another state than changes_requested, and every event of another kind
Rejected(e) ==
  CASE e.kind = "issues" -> ~e.labelled \/ e.action \notin {"opened", "labeled"}
    [] e.kind = "issue_comment" -> ~Actionable(e)
    [] e.kind = "pull_request_review" ->
         \/ e.head = <<>> \/ Head(e.head) # "elpatcher"
         \/ e.review # "changes_requested"
    [] OTHER -> TRUE

SkipReasons ==
  {"missing elpatcher label", "unsupported action: closed",
   "unsupported action: edited", "not a pull request",
   "no elpatcher/ai-review label", "no elpatcher mention", "not a patcher PR",
   "not a changes_requested review", "reviews handled by workflow", "ignored"}

run_body(body, st) == \E pre \in Pads : body = pre \o state_block(st)

\* C22, for the record CodeAgent.run persists: run opens the pull request
\* with the block of its one-Step record in the description and then saves
\* the record, now carrying the pull request's number, with save_to_pr; the
\* record read back from the description is that record (one Step, number 1,
\* awaiting review), whatever the paths of the generated files are.
C22_RunPersistsRecord ==
  (run_body(body0, state) /\ saves = 1 /\ loaded.kind # "unset")
    => loaded = [kind |-> "record", state |-> state]

\* C23: when the language model returns no files during a start,
\* CodeAgent.run returns a failed result; no branch, no commit, no pull
\* request and no persisted record is created.
C23_NoFilesCreatesNothing ==
  [][\A h \in Handlers :
       (pc[h] = "issue_llm" /\ pc'[h] = "done" /\ fault'[h] = "no_files") =>
         /\ result'[h] = "error"
         /\ created'[h] = NoArtifacts
         /\ branches' = branches
         /\ prs' = prs]_vars

\* a start has ended on a generation without files
C23_Witness ==
  \E h \in Handlers :
    /\ ev[h].kind = "issues" /\ ev[h].accepted /\ pc[h] = "done"
    /\ fault[h] = "no_files" /\ result[h] = "error"
    /\ agent_calls[h] = 1

\* what a handler returns as the reason or status of its result dictionary
StructuredResults ==
  SkipReasons \cup {"already processing", "no patcher state found",
                    "max_iterations_reached", "success", "error"}

C25_StepsOnlyAppended ==
  [][\A p \in 1..Len(prs) :
       LET old == steps(prs[p].state)
           new == steps(prs'[p].state)
       IN /\ Len(new) >= Len(old)
          /\ \A i \in 1..Len(old) : new[i].number = old[i].number
          /\ \A i \in 1..Len(new) : new[i].number = i]_vars

\* C26: an advance triggered by a review takes the path of one triggered by
\* a mention: it is turned down exactly when the in-memory counter of the
\* pull request is at or above max_iterations, then with the result
\* max_iterations_reached and the notice posted on the pull request, and
\* otherwise the counter is incremented before CodeAgent.iterate is called.
C26_ReviewLikeMention ==
  [][\A h \in Handlers :
       (pc[h] = "review_token" /\ pc'[h] # "review_token") =>
         LET p == ev[h].number
             cur == get_pr_iteration_count(pr_iteration_counts, p)
         IN /\ result'[h] = "max_iterations_reached" =>
                 /\ cur >= max_iterations
                 /\ notices'[p] = Append(notices[p], max_iterations)
            /\ cur >= max_iterations => agent_calls'[h] = agent_calls[h]
            /\ agent_calls'[h] # agent_calls[h] =>
                 pr_iteration_counts' = increment_pr_iteration(pr_iteration_counts, p)]_vars

\* C27: when a pull request is closed or merged its counter is reset, so
\* get_pr_iteration_count gives 0 for it afterwards; the counters of the
\* other pull requests are what they were.
C27_ClosedResetsCounter ==
  [][\A h \in Handlers :
       (pc[h] = "idle" /\ ev'[h].kind = "pull_request" /\ ev'[h].action = "closed") =>
         /\ get_pr_iteration_count(pr_iteration_counts', ev'[h].number) = 0
         /\ \A q \in PRNums \ {ev'[h].number} :
              pr_iteration_counts'[q] = pr_iteration_counts[q]]_vars

\* the latest Step written into the description has a terminal status
Terminal(st) ==
  /\ st.iterations # <<>>
  /\ st.iterations[Len(st.iterations)].status \in {"completed", "failed"}

\* C28: completed and failed are terminal.  Once the latest Step of a pull
\* request's record has one of them, no step of a handler calls
\* CodeAgent.iterate for that pull request and the Steps of its record stay
\* as they are.
C28_TerminalIsFinal ==
  [][\A p \in 1..Len(prs) :
       Terminal(prs[p].state) =>
         /\ \A h \in Handlers :
              (ev[h].number = p /\ pc[h] \in {"iter_token", "review_token"})
                => agent_calls'[h] = agent_calls[h]
         /\ Len(prs'[p].state.iterations) = Len(prs[p].state.iterations)]_vars

\* C29: the last write wins.  An advancement that completes stores the
\* record it loaded with its own Step appended, whatever the description
\* holds by then; so when two advancements of one pull request load the same
\* n Steps and both complete, the record ends with n + 1 Steps and one Step
\* is lost.
C29_LastWriteWins ==
  [][\A h \in Handlers :
       (pc[h] = "iter_llm" /\ pc'[h] = "done" /\ created'[h].steps = 1) =>
         LET mine == local_state[h].iterations
             kept == prs'[ev[h].number].state.iterations
         IN /\ Len(kept) = Len(mine) + 1
            /\ SubSeq(kept, 1, Len(mine)) = mine
            /\ kept[Len(kept)].number = Len(kept)]_vars

\* two advancements of one pull request, whose record had one Step, have
\* both completed with a Step saved, and the record read back has two Steps
C29_Witness ==
  \E g, h \in Handlers :
    /\ g # h
    /\ ev[g].kind = "issue_comment" /\ ev[h].kind = "issue_comment"
    /\ ev[g].number = ev[h].number
    /\ pc[g] = "done" /\ result[g] = "success" /\ created[g].steps = 1
    /\ pc[h] = "done" /\ result[h] = "success" /\ created[h].steps = 1
    /\ Len(steps(prs[ev[h].number].state)) = 2

\* the get_ci_status call of h's advancement raised: the pull request has a
\* failing check and _get_ci_failures reported none (code_agent.py 800-814)
CheckCallFailed(h) == ev[h].ci_failed /\ ev[h].path # "ci"

\* C30: when the call of the check system fails during an advancement, the
\* failure is propagated: the advancement ends there with a failed result
\* that carries the error, and the language model is not called.
C30_CheckFailurePropagates ==
  \A h \in Handlers :
    CheckCallFailed(h) =>
      /\ pc[h] = "done"
      /\ result[h] = "error"
      /\ fault[h] # "none"

(* ======================= properties: POST /webhook ===================== *)
\* the request just answered carried the signature of its body under the
\* configured secret
SignatureMatches ==
  /\ Len(signature_header) = Len(github_webhook_secret) + 2
  /\ signature_header[1] = "sha256="
  /\ SubSeq(signature_header, 2, Len(signature_header) - 1) = github_webhook_secret
  /\ signature_header[Len(signature_header)] = raw_body

\* C31: with a secret configured, a request whose signature header is
\* missing or is not the HMAC-SHA256 of its body is answered 401 and no
\* background task is scheduled for it; a request with the matching
\* signature passes the verification; without a secret every request
\* passes it.
C31_SignatureGate ==
  (ep_pc = "idle" /\ deliveries > 0) =>
    IF github_webhook_secret # <<>> /\ ~SignatureMatches
    THEN status_code = 401 /\ tasks = 0
    ELSE status_code \notin {401, 500}

(* =================== properties: branches and reviews ================== *)
\* C32: every pull request CodeAgent.run opens has a head branch that passes
\* the naming test of handle_pull_request_review_event, so a review on a
\* pull request under its own head branch is never skipped as not a patcher
\* PR (a changes_requested review on it goes on to an advancement).
C32_OwnPullRequestsRouted ==
  \A h \in Handlers :
    (/\ ev[h].kind = "pull_request_review"
     /\ \E p \in 1..Len(prs) : prs[p].head = ev[h].head)
      => result[h] # "not a patcher PR"

(* ================= properties: results of CodeAgent.iterate ============ *)
\* h was delivered a trigger of an advancement
Advancing(h) == ev[h].kind \in {"issue_comment", "pull_request_review"}

Undecodable(t) ==
  LET m == search_state(t) IN m.found /\ decode(m.group).kind = "raised"

\* C34: a mention-triggered advance on a pull request whose description
\* holds no decodable record returns skipped, leaves the revision counter
\* alone, does not call the code agent and writes nothing.
C34_UndecodableIsSkipped ==
  (st_pc = "mentioned" /\ Undecodable(pr_body)) =>
    /\ comment_result = [NoComment EXCEPT !.status = "skipped"]
    /\ saves = 0 => pr_body = body0

(* ------------- C35: the in-memory counter and the Steps ---------------- *)
\* the comment handlers of pull request p
Mentions(p) ==
  {h \in Handlers : ev[h].kind = "issue_comment" /\ ev[h].number = p}

\* the Steps the advances of p appended to its record
StepsAppended(p) == Cardinality({h \in Mentions(p) : created[h].steps = 1})

\* the advances of p that called CodeAgent.iterate, are over and appended no
\* Step: iterate failed, or found neither a failing check nor feedback
Unproductive(p) ==
  Cardinality({h \in Mentions(p) :
                 pc[h] = "done" /\ agent_calls[h] = 1 /\ created[h].steps = 0})

\* no advance of p is under way
Quiescent(p) == \A h \in Mentions(p) : ~InFlight(h)

\* C35, as stated: after any sequence of mention-triggered advances on a pull
\* request the in-memory counter equals the number of Steps those advances
\* appended to its record.
C35_CounterEqualsSteps ==
  \A p \in PRNums : Quiescent(p) => pr_iteration_counts[p] = StepsAppended(p)

\* C35, amended: the counter is incremented before CodeAgent.iterate is
\* called (webhooks.py 423), so it counts every advance that found a record,
\* whatever came of it: the Steps appended plus the advances that failed or
\* found nothing to fix.  It is never below the number of Steps appended.
C35_CounterCountsAttempts ==
  \A p \in PRNums :
    Quiescent(p) =>
      /\ pr_iteration_counts[p] = StepsAppended(p) + Unproductive(p)
      /\ \A h \in Mentions(p) :
           (agent_calls[h] = 1 /\ created[h].steps = 0)
             => result[h] \in {"error", "success"}

\* an advance failed after the counter was incremented, another appended a
\* Step
C35_Witness ==
  \E p \in PRNums :
    /\ Quiescent(p)
    /\ pr_iteration_counts[p] = 2
    /\ StepsAppended(p) = 1
    /\ \E h \in Mentions(p) :
         agent_calls[h] = 1 /\ created[h].steps = 0 /\ result[h] = "error"

(* ------------- C36: the review's update of the record ------------------ *)
\* new is old with nothing but the status of its latest Step changed
UpdatedInPlace(old, new) ==
  /\ Len(old) > 0
  /\ Len(new) = Len(old)
  /\ new[Len(old)].status \in {"completed", "needs_changes"}
  /\ new = [old EXCEPT ![Len(old)].status = new[Len(old)].status]

\* C36: a review of a pull request whose record has a Step updates only the
\* latest Step in place: its status becomes completed or needs_changes, the
\* number of Steps and every earlier Step stay as they were.
C36_ReviewUpdatesLatestInPlace ==
  [][\A p \in 1..Len(prs) :
       (pc' = pc /\ prs'[p] # prs[p])
         => UpdatedInPlace(steps(prs[p].state), steps(prs'[p].state))]_vars

(* ------------- C37: a failed start and the pull request ---------------- *)
\* C37: whenever CodeAgent.run returns a failed result, whichever step
\* failed, no pull request exists for that run.
C37_FailedStartLeavesNoPR ==
  \A h \in Handlers :
    (ev[h].kind = "issues" /\ pc[h] = "done" /\ result[h] = "error")
      => created[h].prs = 0

(* ------------- C38: the verdict _wait_for_ci returns ------------------- *)
\* C38: whenever _wait_for_ci returns because no check is pending, the
\* aggregate status of the verdict it returns is not pending, whatever the
\* pull request shows (no commits and no check runs included).
C38_NoPendingMeansSettled ==
  (w_pc = "returned" /\ pending_checks(ci_result) = {})
    => ci_result.status # "pending"

(* ------------- C39: a failed allow-listed check and the approval ------- *)
\* ReviewAgent.run, review_agent.py 130-132: the review is approved when the
\* diff analysis approves and the CI analysis, if there is one, has passed
approved(review_approved, ci_passed) == review_approved /\ ci_passed

\* C39: in filtered mode, whenever a check whose name is on the allow-list
\* has status failure, the CI analysis returned has passed = FALSE and the
\* review is not approved, whatever the language model returns.
C39_FailedCheckBlocksApproval ==
  (/\ patcher_only
   /\ an_pc = "returned"
   /\ \E k \in 1..Len(an_checks) :
        NameMatches(an_checks[k].name) /\ an_checks[k].status = "failure")
    => /\ ~passed
       /\ \A review_approved \in BOOLEAN : ~approved(review_approved, passed)
====
